---------------------------- MODULE Spec2Model ----------------------------
(***************************************************************************)
(* node-reverse-proxy: round-robin reverse proxy in front of JSON-RPC      *)
(* nodes (src/main.go, src/node.go).                                       *)
(*                                                                         *)
(* The model covers startup validation (main), node selection (nextNode),  *)
(* the response hook (ReverseProxyNode.ModifyResponse with                 *)
(* tryDecompressResponse) and the "/healthz" handler.                      *)
(*                                                                         *)
(* Bytes.  A body is a sequence of bytes.  A byte is a record [k, c]:      *)
(*   k = "lit"  a literal byte; c is the JSON token it spells              *)
(*   k = "def"  a byte of a deflate stream; c is the literal it inflates   *)
(*              to, or "eos" for the end of the final block                *)
(*   k = "gz"   gzip framing: c = "hdr" (member header) or "crc" (trailer) *)
(* JSON tokens: "{" "}" "1" "true" "false" "null" and the member names     *)
(* "error:" "result:" "k:" (a name together with its colon; the commas     *)
(* between members carry no information and are left out).                 *)
(*                                                                         *)
(* nodesIndex and the four counters are uint64 in the source.  Every run   *)
(* of the model performs at most MaxRequests increments from zero, so the  *)
(* wrap at 2^64 is outside every behaviour checked here.                   *)
(***************************************************************************)
EXTENDS Integers, Sequences, FiniteSets, TLC

\* ------------------------------------------------------------------ bounds
MaxNodes == 3
MaxHandlers == 2
MaxRequests == 2
MaxDepth == 2
MaxBodyLen == 2
MaxLines == 2

\* ------------------------------------------------------------------- bytes
Lit(c) == [k |-> "lit", c |-> c]
Def(c) == [k |-> "def", c |-> c]
GzHdr == [k |-> "gz", c |-> "hdr"]
GzCrc == [k |-> "gz", c |-> "crc"]
DefEos == Def("eos")

ScalarToks == {"1", "true", "false", "null"}
KeyToks == {"error:", "result:", "k:"}

\* ------------------------------------------------------- JSON documents
Scalar(c) == [t |-> "scalar", v |-> c, m |-> <<>>]
Obj(ms) == [t |-> "obj", v |-> "", m |-> ms]
Member(k, v) == [k |-> k, v |-> v]
NoValue == [t |-> "none", v |-> "", m |-> <<>>]

ParseFail == [ok |-> FALSE, next |-> 0, val |-> NoValue]

\* The token a byte spells for the JSON scanner; anything that is not a
\* literal byte is an invalid character.
Tok(b) == IF b.k = "lit" THEN b.c ELSE "?"

RECURSIVE ParseValue(_, _)
RECURSIVE ParseMembers(_, _, _)
\* encoding/json: scan one JSON value of s starting at position i.
ParseValue(s, i) ==
    IF i > Len(s) THEN ParseFail
    ELSE IF Tok(s[i]) \in ScalarToks
         THEN [ok |-> TRUE, next |-> i + 1, val |-> Scalar(Tok(s[i]))]
    ELSE IF Tok(s[i]) = "{" THEN ParseMembers(s, i + 1, <<>>)
    ELSE ParseFail

ParseMembers(s, i, acc) ==
    IF i > Len(s) THEN ParseFail
    ELSE IF Tok(s[i]) = "}"
         THEN [ok |-> TRUE, next |-> i + 1, val |-> Obj(acc)]
    ELSE IF Tok(s[i]) \in KeyToks
         THEN LET r == ParseValue(s, i + 1)
              IN  IF r.ok
                  THEN ParseMembers(s, r.next, Append(acc, Member(Tok(s[i]), r.val)))
                  ELSE ParseFail
    ELSE ParseFail

\* jsonquery.Parse(bytes.NewReader(ub)): json.Unmarshal of the whole input;
\* anything after the first value is a syntax error.
JsonqueryParse(ub) ==
    LET r == ParseValue(ub, 1)
    IN  IF r.ok /\ r.next = Len(ub) + 1 THEN r ELSE ParseFail

RECURSIVE HasKey(_, _)
\* jsonquery.FindOne(doc, "//error") != nil: an element named k anywhere
\* below the document node.
HasKey(doc, k) ==
    /\ doc.t = "obj"
    /\ \E i \in 1..Len(doc.m) : doc.m[i].k = k \/ HasKey(doc.m[i].v, k)

RECURSIVE Serialize(_)
RECURSIVE SerializeMembers(_)
\* The bytes of a document (what an upstream writes).
Serialize(doc) ==
    IF doc.t = "scalar" THEN <<Lit(doc.v)>>
    ELSE <<Lit("{")>> \o SerializeMembers(doc.m) \o <<Lit("}")>>

SerializeMembers(ms) ==
    IF ms = <<>> THEN <<>>
    ELSE <<Lit(ms[1].k)>> \o Serialize(ms[1].v) \o SerializeMembers(Tail(ms))

RECURSIVE DocsAt(_, _, _)
\* Documents of nesting depth at most d over the given member names and
\* scalars: a scalar, the empty object, an object of one member, or an
\* object of two members whose first value is a scalar.
DocsAt(keys, scalars, d) ==
    LET S == {Scalar(c) : c \in scalars}
    IN  IF d = 0 THEN S
        ELSE LET sub == DocsAt(keys, scalars, d - 1)
             IN  S \cup {Obj(<<>>)}
                   \cup {Obj(<<Member(k, v)>>) : k \in keys, v \in sub}
                   \cup {Obj(<<Member(k1, s), Member(k2, v)>>) :
                            k1 \in keys, s \in S, k2 \in keys, v \in sub}

\* All byte strings of literal tokens of length at most n.
LitSeqs(toks, n) ==
    UNION {[1..len -> {Lit(c) : c \in toks}] : len \in 0..n}

\* ------------------------------------------------- compress/flate, gzip
RECURSIVE InflateFrom(_, _, _)
\* Inflate the deflate stream of s that starts at position i; acc is the
\* output so far.  err: the input ended before the final block, or a byte
\* is not part of a deflate stream.  next: the position after the stream.
InflateFrom(s, i, acc) ==
    IF i > Len(s) THEN [err |-> TRUE, data |-> acc, next |-> i]
    ELSE IF s[i].k # "def" THEN [err |-> TRUE, data |-> acc, next |-> i]
    ELSE IF s[i] = DefEos THEN [err |-> FALSE, data |-> acc, next |-> i + 1]
    ELSE InflateFrom(s, i + 1, Append(acc, Lit(s[i].c)))

\* io.ReadAll(flate.NewReader(b)): the data read so far and the error.
\* Bytes after the final block are not read.
FlateReadAll(b) ==
    LET r == InflateFrom(b, 1, <<>>)
    IN  [err |-> r.err, data |-> r.data]

\* gzip.NewReader(b) succeeds iff b starts with a valid member header.
GzipNewReaderOk(b) == Len(b) > 0 /\ b[1] = GzHdr

RECURSIVE GzipMembersFrom(_, _, _)
\* Read the members of a gzip file from position i, the header at i
\* already checked: the deflate stream, the trailer, and then either the
\* end of the input or the header of another member.
GzipMembersFrom(s, i, acc) ==
    LET r == InflateFrom(s, i + 1, acc)
    IN  IF r.err THEN [err |-> TRUE, data |-> r.data]
        ELSE IF r.next > Len(s) \/ s[r.next] # GzCrc
             THEN [err |-> TRUE, data |-> r.data]
        ELSE IF r.next = Len(s) THEN [err |-> FALSE, data |-> r.data]
        ELSE IF s[r.next + 1] = GzHdr THEN GzipMembersFrom(s, r.next + 1, r.data)
        ELSE [err |-> TRUE, data |-> r.data]

\* io.ReadAll(ub) for ub the reader gzip.NewReader returned.
GzipReadAll(b) == GzipMembersFrom(b, 1, <<>>)

\* Mutant of tryDecompressResponse: a gzip header failure is an error.
tryDecompressResponse_GzipStrict(ce, b) ==
    IF ce = "gzip"
    THEN IF ~GzipNewReaderOk(b) THEN [err |-> TRUE, data |-> b]
         ELSE GzipReadAll(b)
    ELSE IF ce = "deflate" THEN FlateReadAll(b)
    ELSE [err |-> FALSE, data |-> b]

\* tryDecompressResponse(r, b): the bytes to inspect and the error.
tryDecompressResponse(ce, b) ==
    IF ce = "gzip"
    THEN IF ~GzipNewReaderOk(b) THEN [err |-> FALSE, data |-> b]
         ELSE GzipReadAll(b)
    ELSE IF ce = "deflate" THEN FlateReadAll(b)
    ELSE [err |-> FALSE, data |-> b]

\* -------------------------------------------------------- ModifyResponse
\* A response as the hook receives it: r.StatusCode, the Content-Encoding
\* header, the bytes of the body, and whether io.ReadAll(r.Body) succeeds.
Response(status, ce, body, readOk) ==
    [status |-> status, ce |-> ce, body |-> body, readOk |-> readOk]

NoResponse == Response(0, "", <<>>, FALSE)

StatusTooManyRequests == 429
StatusOK == 200
StatusInternalServerError == 500
StatusBadGateway == 502
StatusServiceUnavailable == 503

\* Mutant of Inspect: line 52 is missing, statusCode keeps the upstream status.
Inspect_NoOverride(r) ==
    IF ~r.readOk
    THEN [retErr |-> TRUE, decodeErr |-> FALSE, parseTried |-> FALSE,
          parseOk |-> FALSE, detected |-> FALSE, statusCode |-> r.status]
    ELSE LET dec == tryDecompressResponse(r.ce, r.body)
             doc == JsonqueryParse(dec.data)
             found == ~dec.err /\ doc.ok /\ HasKey(doc.val, "error:")
         IN  [retErr |-> FALSE, decodeErr |-> dec.err, parseTried |-> ~dec.err,
              parseOk |-> ~dec.err /\ doc.ok, detected |-> found,
              statusCode |-> r.status]

\* Mutant of Inspect: the error of tryDecompressResponse is returned.
Inspect_DecodeErrReturned(r) ==
    IF ~r.readOk
    THEN [retErr |-> TRUE, decodeErr |-> FALSE, parseTried |-> FALSE,
          parseOk |-> FALSE, detected |-> FALSE, statusCode |-> r.status]
    ELSE LET dec == tryDecompressResponse(r.ce, r.body)
             doc == JsonqueryParse(dec.data)
             found == ~dec.err /\ doc.ok /\ HasKey(doc.val, "error:")
         IN  [retErr |-> dec.err, decodeErr |-> dec.err, parseTried |-> ~dec.err,
              parseOk |-> ~dec.err /\ doc.ok, detected |-> found,
              statusCode |-> IF found THEN StatusTooManyRequests ELSE r.status]

\* Lines 39-57 of node.go: what the inspection of r finds.
\*   retErr      ModifyResponse returns a non-nil error
\*   decodeErr   tryDecompressResponse returned an error
\*   parseTried  jsonquery.Parse was called; parseOk: it succeeded
\*   detected    FindOne(doc, "//error") returned a node
\*   statusCode  the local variable statusCode when the function returns
Inspect(r) ==
    IF ~r.readOk
    THEN [retErr |-> TRUE, decodeErr |-> FALSE, parseTried |-> FALSE,
          parseOk |-> FALSE, detected |-> FALSE, statusCode |-> r.status]
    ELSE LET dec == tryDecompressResponse(r.ce, r.body)
             doc == JsonqueryParse(dec.data)
             found == ~dec.err /\ doc.ok /\ HasKey(doc.val, "error:")
         IN  [retErr |-> FALSE, decodeErr |-> dec.err, parseTried |-> ~dec.err,
              parseOk |-> ~dec.err /\ doc.ok, detected |-> found,
              statusCode |-> IF found THEN StatusTooManyRequests ELSE r.status]

\* The line ModifyResponse logs at WARN level: "detect error from node"
\* (line 51), "parse response from node ... error" (line 55), or none.
WarnLine(r) ==
    LET i == Inspect(r)
    IN  IF i.detected THEN "detect error"
        ELSE IF i.parseTried /\ ~i.parseOk THEN "parse error"
        ELSE ""

\* Mutant of StatusClass: the 4xx range runs up to 599.
StatusClass_Wide4XX(statusCode) ==
    IF statusCode >= 200 /\ statusCode < 300 THEN "Calls2XX"
    ELSE IF statusCode >= 400 /\ statusCode < 600 THEN "Calls4XX"
    ELSE IF statusCode >= 500 /\ statusCode < 600 THEN "Calls5XX"
    ELSE "none"

\* The counter the deferred function of ModifyResponse increments for the
\* final value of statusCode ("none" outside 200-299, 400-599).
StatusClass(statusCode) ==
    IF statusCode >= 200 /\ statusCode < 300 THEN "Calls2XX"
    ELSE IF statusCode >= 400 /\ statusCode < 500 THEN "Calls4XX"
    ELSE IF statusCode >= 500 /\ statusCode < 600 THEN "Calls5XX"
    ELSE "none"

\* What a client is sent: status line, body, Content-Length (-1: the
\* handler sets none) and the number of upstream calls made for it.
Delivery(status, body, contentLength, upstreamCalls) ==
    [status |-> status, body |-> body, contentLength |-> contentLength,
     upstreamCalls |-> upstreamCalls]

NoDelivery == Delivery(0, <<>>, -1, 0)

\* Mutant of RestoredBody: the decoded bytes are put back.
RestoredBody_Decoded(b, ub) == ub

\* The body the hook puts back into r (line 59-60 of node.go).
RestoredBody(b, ub) == b

\* The response the proxy writes after the hook ran.  The hook never
\* assigns r.StatusCode; it replaces r.Body and Content-Length (lines
\* 59-62).  When the hook returns an error, httputil.ReverseProxy calls
\* its error handler, which answers 502 with no body.
Deliver(r) ==
    IF Inspect(r).retErr THEN Delivery(StatusBadGateway, <<>>, -1, 1)
    ELSE LET b == RestoredBody(r.body, tryDecompressResponse(r.ce, r.body).data)
         IN  Delivery(r.status, b, Len(b), 1)

\* -------------------------------------------------------------- /healthz
\* The outcome of the probe's upstream call: http.DefaultClient.Do fails
\* (connection error, or the 5 s deadline passes before a response),
\* io.ReadAll(resp.Body) fails, or the body arrives.
HealthOutcome(doErr, readOk, body) ==
    [doErr |-> doErr, readOk |-> readOk, body |-> body]

NoOutcome == HealthOutcome(FALSE, FALSE, <<>>)

\* decoder.Decode(&jsonResp) for jsonResp a map[string]any: the first JSON
\* value of b is decoded and what follows it is not read; an object fills
\* the map, null leaves it empty, any other value is a type error.
DecodeMap(b) ==
    LET r == ParseValue(b, 1)
    IN  IF ~r.ok THEN [ok |-> FALSE, m |-> <<>>]
        ELSE IF r.val.t = "obj" THEN [ok |-> TRUE, m |-> r.val.m]
        ELSE IF r.val = Scalar("null") THEN [ok |-> TRUE, m |-> <<>>]
        ELSE [ok |-> FALSE, m |-> <<>>]

\* jsonResp[k]: the value of the last member named k, NoValue (nil) when
\* there is none.
MapGet(m, k) ==
    LET at == {i \in 1..Len(m) : m[i].k = k}
    IN  IF at = {} THEN NoValue
        ELSE m[CHOOSE i \in at : \A j \in at : j <= i].v

\* Mutant of ResultStatus: the two booleans are exchanged.
ResultStatus_Inverted(result) ==
    IF result = Scalar("true") THEN StatusOK
    ELSE IF result = Scalar("false") THEN StatusInternalServerError
    ELSE StatusBadGateway

\* Lines 268-281 of main.go: the status for the decoded `result`.
ResultStatus(result) ==
    IF result = Scalar("true") THEN StatusInternalServerError
    ELSE IF result = Scalar("false") THEN StatusOK
    ELSE StatusBadGateway

\* The enabled branch of the "/healthz" handler (lines 228-281 of
\* main.go).  requestOk: whether http.NewRequestWithContext accepts
\* node.URL.String().
ProbeUpstream(requestOk, o) ==
    IF ~requestOk THEN Delivery(StatusInternalServerError, <<>>, -1, 0)
    ELSE IF o.doErr THEN Delivery(StatusServiceUnavailable, <<>>, -1, 1)
    ELSE IF ~o.readOk THEN Delivery(StatusInternalServerError, <<>>, -1, 1)
    ELSE LET d == DecodeMap(o.body)
             st == ResultStatus(MapGet(d.m, "result:"))
         IN  IF ~d.ok THEN Delivery(StatusInternalServerError, <<>>, -1, 1)
             ELSE IF st = StatusBadGateway
                  THEN Delivery(StatusBadGateway, o.body, -1, 1)
             ELSE Delivery(st, <<>>, -1, 1)

\* Mutant of HealthzHandler: the flag is not consulted.
HealthzHandler_AlwaysProbe(enabled, requestOk, o) == ProbeUpstream(requestOk, o)

\* The "/healthz" handler (lines 226-285 of main.go).
HealthzHandler(enabled, requestOk, o) ==
    IF ~enabled THEN Delivery(StatusOK, <<>>, -1, 0)
    ELSE ProbeUpstream(requestOk, o)

\* ------------------------------------------------------------------ state
VARIABLES
    phase,              \* "boot", "serving" (ListenAndServe runs), "fatal" (os.Exit),
                        \* "exited" (main returned), "panic" (a goroutine panicked)
    nodes,              \* the reverse.nodes flag: for each address, whether url.Parse accepts it
    nodeHealthProxy,    \* the node-health-proxy flag
    ReverseProxyNodes,  \* the registry; the node of Go index i is ReverseProxyNodes[i + 1]
    nodesIndex,         \* the round-robin cursor
    hs,                 \* the request handlers (one goroutine per inbound request)
    calls,              \* history: the nextNode calls, in the order of their Adds
    processed,          \* history: per node, the number of ModifyResponse calls that returned
    printMetricsInterval, \* the metrics.interval flag: its sign
    ctxDone,            \* the context of signal.NotifyContext is cancelled
    rep,                \* the goroutine of runPrintNodeMetrics
    line,               \* the last line runPrintNodeMetrics logged
    lines               \* history: how many lines it logged, counted up to MaxLines

\* The variables of runPrintNodeMetrics and of the shutdown.
mvars == <<printMetricsInterval, ctxDone, rep, line, lines>>

vars == <<phase, nodes, nodeHealthProxy, ReverseProxyNodes, nodesIndex, hs,
          calls, processed, printMetricsInterval, ctxDone, rep, line, lines>>

Handlers == 1..MaxHandlers

\* A registry entry.  built: buildNode has run for it (the slice is made
\* with nil entries first).
Node(built) ==
    [built |-> built, Calls |-> 0, Calls2XX |-> 0, Calls4XX |-> 0, Calls5XX |-> 0]

\* A handler.  pc: "idle" (no request), "picked" (nextNode: after the Add),
\* "proxying" (request sent upstream), "inspect" (ModifyResponse: after the
\* first Add), "done" (response written).  val: the value the Add
\* returned; slot (history): the position of this call in calls; node: the
\* Go index of the selected node; resp: the upstream response; warn: the
\* line ModifyResponse logged with logger.Warnf; probe: the health probe's
\* upstream outcome; out: what the client was sent.
IdleHandler ==
    [pc |-> "idle", path |-> "", val |-> 0, slot |-> 0, node |-> 0,
     resp |-> NoResponse, warn |-> "", probe |-> NoOutcome, out |-> NoDelivery]

\* An entry of calls.  c0: the cursor just before the Add; val: the value
\* the Add returned; idx: the Go index returned (-1 until the call
\* returns); alone: no other nextNode call overlapped this one.
Call(c0, val, idx, alone) == [c0 |-> c0, val |-> val, idx |-> idx, alone |-> alone]

Statuses == {200, 302, 404, 500}

ErrorBody == Serialize(Obj(<<Member("error:", Scalar("1"))>>))
ResultBody == Serialize(Obj(<<Member("result:", Scalar("1"))>>))

\* The upstream responses of the full system's runs: one per class of
\* final status, with and without an `error` member, and a failed read.
SampleResponses ==
    {Response(200, "", ResultBody, TRUE), Response(200, "", ErrorBody, TRUE),
     Response(500, "", ResultBody, TRUE), Response(302, "", ResultBody, TRUE),
     Response(200, "", ResultBody, FALSE)}

\* The probe outcomes of the full system's runs.
SampleOutcomes ==
    {HealthOutcome(TRUE, FALSE, <<>>),
     HealthOutcome(FALSE, TRUE, Serialize(Obj(<<Member("result:", Scalar("false"))>>))),
     HealthOutcome(FALSE, TRUE, ResultBody)}

\* The goroutine of runPrintNodeMetrics.  pc: "start" (line 296 creates
\* it; it has not run yet), "select" (at the select of line 349), "report"
\* (inside the Infof of lines 353-357, evaluating its arguments),
\* "returned".  i: the Go index of the node being reported; loaded: the
\* counters loaded so far for its line; seen (history): the sum of the
\* node's class counters when Calls was loaded.
NewReporter == [pc |-> "start", i |-> 0, loaded |-> <<>>, seen |-> 0]

\* A line of runPrintNodeMetrics.  kind: "start" (line 351), "node" (lines
\* 353-357), "none" (nothing logged yet); during (history): by how much the
\* sum of the node's class counters grew between the load of Calls and the
\* load of Calls5XX.
LogLine(kind, node, c, c2xx, c4xx, c5xx) ==
    [kind |-> kind, node |-> node, calls |-> c, c2xx |-> c2xx, c4xx |-> c4xx,
     c5xx |-> c5xx, during |-> 0]

NoLine == LogLine("none", 0, 0, 0, 0, 0)

\* The runs without the reporter: metrics.interval is 0, the reporter's
\* goroutine has not run and no signal has arrived.
MetricsOff ==
    /\ printMetricsInterval = 0
    /\ ctxDone = FALSE
    /\ rep = NewReporter
    /\ line = NoLine
    /\ lines = 0

Init ==
    /\ phase = "boot"
    /\ nodes \in UNION {[1..n -> BOOLEAN] : n \in 0..MaxNodes}
    /\ nodeHealthProxy \in BOOLEAN
    /\ ReverseProxyNodes = <<>>
    /\ nodesIndex = 0
    /\ hs = [h \in Handlers |-> IdleHandler]
    /\ calls = <<>>
    /\ processed = <<>>
    /\ MetricsOff

\* Mutant of FlagsValid: the probe flag is not checked against the list.
FlagsValid_NoProbeCheck(ns, probe) == Len(ns) # 0

\* main, lines 203-209: neither of the two flag checks calls Fatalf.
FlagsValid(ns, probe) == Len(ns) # 0 /\ ~(probe /\ Len(ns) > 1)

\* main, lines 196-218 and 287-293: validate the flags, build the registry,
\* start the server; logger.Fatalf ends the process.
Startup ==
    /\ phase = "boot"
    /\ IF ~FlagsValid(nodes, nodeHealthProxy)
       THEN /\ phase' = "fatal"
            /\ UNCHANGED <<ReverseProxyNodes, processed>>
       ELSE IF \E i \in 1..Len(nodes) : ~nodes[i]
       THEN LET bad == CHOOSE i \in 1..Len(nodes) :
                           ~nodes[i] /\ \A j \in 1..(i - 1) : nodes[j]
            IN  /\ phase' = "fatal"
                /\ ReverseProxyNodes' = [i \in 1..Len(nodes) |-> Node(i < bad)]
                /\ UNCHANGED processed
       ELSE /\ phase' = "serving"
            /\ ReverseProxyNodes' = [i \in 1..Len(nodes) |-> Node(TRUE)]
            /\ processed' = [i \in 1..Len(nodes) |-> 0]
    /\ UNCHANGED <<nodes, nodeHealthProxy, nodesIndex, hs, calls>>
    /\ UNCHANGED mvars

\* Mutant of AtomicAdd: the delta is 2.
AtomicAdd_Two(x) == x + 2

\* nodesIndex.Add(1) and atomic.AddUint64(&c, 1): the new value.
AtomicAdd(x) == x + 1

\* Mutant of NodeIndex: the value before the increment is reduced.
NodeIndex_FromZero(nextIndex, n) == (nextIndex - 1) % n

\* nextIndex % uint64(len(ReverseProxyNodes))
NodeIndex(nextIndex, n) == nextIndex % n

\* Mutant of NextNodeAdd: load, add and store are not one atomic step; a
\* call that overlaps another obtains the value the other obtained.
NextNodeAdd_Racy(h) ==
    /\ phase = "serving"
    /\ hs[h].pc = "idle"
    /\ Len(calls) < MaxRequests
    /\ LET busy == {hs[g].slot : g \in {g \in Handlers : hs[g].pc = "picked"}}
           v == IF busy = {} THEN AtomicAdd(nodesIndex) ELSE nodesIndex
       IN  /\ nodesIndex' = v
           /\ hs' = [hs EXCEPT ![h] = [IdleHandler EXCEPT !.pc = "picked", !.path = "/",
                                                          !.val = v,
                                                          !.slot = Len(calls) + 1]]
           /\ calls' = Append([i \in 1..Len(calls) |->
                                  IF i \in busy THEN [calls[i] EXCEPT !.alone = FALSE]
                                  ELSE calls[i]],
                              Call(nodesIndex, v, -1, busy = {}))
    /\ UNCHANGED <<phase, nodes, nodeHealthProxy, ReverseProxyNodes, processed>>
    /\ UNCHANGED mvars

\* The "/" handler enters nextNode: line 333, the atomic increment.
NextNodeAdd(h) ==
    /\ phase = "serving"
    /\ hs[h].pc = "idle"
    /\ Len(calls) < MaxRequests
    /\ nodesIndex' = AtomicAdd(nodesIndex)
    /\ hs' = [hs EXCEPT ![h] = [IdleHandler EXCEPT !.pc = "picked", !.path = "/",
                                                   !.val = AtomicAdd(nodesIndex),
                                                   !.slot = Len(calls) + 1]]
    /\ LET busy == {hs[g].slot : g \in {g \in Handlers : hs[g].pc = "picked"}}
       IN  calls' = Append([i \in 1..Len(calls) |->
                               IF i \in busy THEN [calls[i] EXCEPT !.alone = FALSE]
                               ELSE calls[i]],
                           Call(nodesIndex, AtomicAdd(nodesIndex), -1, busy = {}))
    /\ UNCHANGED <<phase, nodes, nodeHealthProxy, ReverseProxyNodes, processed>>
    /\ UNCHANGED mvars

\* nextNode, lines 334-336: reduce the value and index the registry.
NextNodeReturn(h) ==
    /\ phase = "serving"
    /\ hs[h].pc = "picked"
    /\ LET idx == NodeIndex(hs[h].val, Len(ReverseProxyNodes))
       IN  /\ hs' = [hs EXCEPT ![h].pc = "proxying", ![h].node = idx,
                               ![h].val = 0, ![h].slot = 0]
           /\ calls' = [calls EXCEPT ![hs[h].slot].idx = idx]
    /\ UNCHANGED <<phase, nodes, nodeHealthProxy, ReverseProxyNodes, nodesIndex,
                   processed>>
    /\ UNCHANGED mvars

\* node.Proxy.ServeHTTP when the round trip fails: the hook is not called
\* and the proxy's error handler answers 502.
ProxyError(h) ==
    /\ phase = "serving"
    /\ hs[h].pc = "proxying"
    /\ hs' = [hs EXCEPT ![h].pc = "done", ![h].node = 0,
                        ![h].out = Delivery(StatusBadGateway, <<>>, -1, 1)]
    /\ UNCHANGED <<phase, nodes, nodeHealthProxy, ReverseProxyNodes, nodesIndex,
                   calls, processed>>
    /\ UNCHANGED mvars

\* Mutant of ModifyResponseBegin: the call is not counted.
ModifyResponseBegin_Uncounted(h, pool) ==
    /\ phase = "serving"
    /\ hs[h].pc = "proxying"
    /\ \E r \in pool : hs' = [hs EXCEPT ![h].pc = "inspect", ![h].resp = r]
    /\ UNCHANGED <<phase, nodes, nodeHealthProxy, ReverseProxyNodes, nodesIndex,
                   calls, processed>>
    /\ UNCHANGED mvars

\* ModifyResponse, lines 27-28: an upstream response r of the pool arrives
\* and the hook counts the call.
ModifyResponseBegin(h, pool) ==
    /\ phase = "serving"
    /\ hs[h].pc = "proxying"
    /\ \E r \in pool : hs' = [hs EXCEPT ![h].pc = "inspect", ![h].resp = r]
    /\ ReverseProxyNodes' =
           [ReverseProxyNodes EXCEPT ![hs[h].node + 1].Calls = AtomicAdd(@)]
    /\ UNCHANGED <<phase, nodes, nodeHealthProxy, nodesIndex, calls, processed>>
    /\ UNCHANGED mvars

\* Mutant of CountClass: the class is counted on the first node.
CountClass_FirstNode(rpn, n, statusCode) ==
    LET c == StatusClass(statusCode)
    IN  IF c = "Calls2XX" THEN [rpn EXCEPT ![1].Calls2XX = AtomicAdd(@)]
        ELSE IF c = "Calls4XX" THEN [rpn EXCEPT ![1].Calls4XX = AtomicAdd(@)]
        ELSE IF c = "Calls5XX" THEN [rpn EXCEPT ![1].Calls5XX = AtomicAdd(@)]
        ELSE rpn

\* The registry after the deferred function of ModifyResponse ran for the
\* node of Go index n and the final statusCode.
CountClass(rpn, n, statusCode) ==
    LET c == StatusClass(statusCode)
    IN  IF c = "Calls2XX" THEN [rpn EXCEPT ![n + 1].Calls2XX = AtomicAdd(@)]
        ELSE IF c = "Calls4XX" THEN [rpn EXCEPT ![n + 1].Calls4XX = AtomicAdd(@)]
        ELSE IF c = "Calls5XX" THEN [rpn EXCEPT ![n + 1].Calls5XX = AtomicAdd(@)]
        ELSE rpn

\* ModifyResponse, lines 39-63 and the deferred function (29-37): inspect
\* the body, count the class of the final statusCode, restore the body;
\* the proxy then writes the response.
ModifyResponseEnd(h) ==
    /\ phase = "serving"
    /\ hs[h].pc = "inspect"
    /\ ReverseProxyNodes' =
           CountClass(ReverseProxyNodes, hs[h].node, Inspect(hs[h].resp).statusCode)
    /\ hs' = [hs EXCEPT ![h].pc = "done", ![h].node = 0,
                        ![h].warn = WarnLine(hs[h].resp),
                        ![h].out = Deliver(hs[h].resp)]
    /\ processed' = [processed EXCEPT ![hs[h].node + 1] = @ + 1]
    /\ UNCHANGED <<phase, nodes, nodeHealthProxy, nodesIndex, calls>>
    /\ UNCHANGED mvars

\* The "/healthz" handler, lines 226-285.  o ranges over what the upstream
\* would answer; it is recorded when the probe is enabled (only then is
\* the upstream called).
Healthz(h, pool) ==
    /\ phase = "serving"
    /\ hs[h].pc = "idle"
    /\ \E o \in pool :
           hs' = [hs EXCEPT ![h] =
                     [IdleHandler EXCEPT
                         !.pc = "done", !.path = "/healthz",
                         !.probe = IF nodeHealthProxy THEN o ELSE NoOutcome,
                         !.out = HealthzHandler(nodeHealthProxy,
                                                ReverseProxyNodes[1].built /\ nodes[1],
                                                o)]]
    /\ UNCHANGED <<phase, nodes, nodeHealthProxy, ReverseProxyNodes, nodesIndex,
                   calls, processed>>
    /\ UNCHANGED mvars

\* The handler's goroutine ends; the next request gets a fresh one.
Finish(h) ==
    /\ phase = "serving"
    /\ hs[h].pc = "done"
    /\ hs' = [hs EXCEPT ![h] = IdleHandler]
    /\ UNCHANGED <<phase, nodes, nodeHealthProxy, ReverseProxyNodes, nodesIndex,
                   calls, processed>>
    /\ UNCHANGED mvars

Next ==
    \/ Startup
    \/ \E h \in Handlers : NextNodeAdd(h)
    \/ \E h \in Handlers : NextNodeReturn(h)
    \/ \E h \in Handlers : ProxyError(h)
    \/ \E h \in Handlers : ModifyResponseBegin(h, SampleResponses)
    \/ \E h \in Handlers : ModifyResponseEnd(h)
    \/ \E h \in Handlers : Healthz(h, SampleOutcomes)
    \/ \E h \in Handlers : Finish(h)

Spec == Init /\ [][Next]_vars

\* ------------------------------------------- one response, every input
\* The deflate stream of the literal bytes p, and the gzip file of them.
Deflate(p) == [i \in 1..Len(p) |-> Def(p[i].c)] \o <<DefEos>>
Gzip(p) == <<GzHdr>> \o Deflate(p) \o <<GzCrc>>
Front(b) == SubSeq(b, 1, Len(b) - 1)

InspectToks == {"{", "}", "error:", "k:", "1"}

\* Bodies in the clear: every token string up to MaxBodyLen and every
\* document up to MaxDepth with members named error or k.
PlainBodies ==
    LitSeqs(InspectToks, MaxBodyLen)
        \cup {Serialize(d) : d \in DocsAt({"error:", "k:"}, {"1"}, MaxDepth)}

\* Each of them as sent: in the clear, deflated, gzipped; and damaged: a
\* deflate stream cut before its end, a gzip file cut inside its trailer,
\* a gzip file without its header.
WireBodies ==
    UNION {{p, Deflate(p), Front(Deflate(p)), Gzip(p), Front(Gzip(p)), Tail(Gzip(p))} :
              p \in PlainBodies}

Encodings == {"", "gzip", "deflate", "br"}

AllResponses ==
    {Response(st, ce, b, ok) :
        st \in Statuses, ce \in Encodings, b \in WireBodies, ok \in BOOLEAN}

\* The state after startup with one node and the first selection: the
\* request of handler 1 is on its way to node 0.
InitInspect ==
    /\ phase = "serving"
    /\ nodes = <<TRUE>>
    /\ nodeHealthProxy = FALSE
    /\ ReverseProxyNodes = <<Node(TRUE)>>
    /\ nodesIndex = AtomicAdd(0)
    /\ hs = [h \in Handlers |->
                IF h = 1 THEN [IdleHandler EXCEPT !.pc = "proxying", !.path = "/"]
                ELSE IdleHandler]
    /\ calls = <<Call(0, AtomicAdd(0), 0, TRUE)>>
    /\ processed = <<0>>
    /\ MetricsOff

NextInspect ==
    \/ \E h \in Handlers : ModifyResponseBegin(h, AllResponses)
    \/ \E h \in Handlers : ModifyResponseEnd(h)

SpecInspect == InitInspect /\ [][NextInspect]_vars

\* ---------------------------------------------- one probe, every outcome
HealthToks == {"{", "}", "result:", "k:"} \cup ScalarToks

\* Probe bodies: every token string up to MaxBodyLen, every document up to
\* MaxDepth with members named result or k, and each document followed by
\* one more byte.
HealthBodies ==
    LET docs == {Serialize(d) : d \in DocsAt({"result:", "k:"}, ScalarToks, MaxDepth)}
    IN  LitSeqs(HealthToks, MaxBodyLen) \cup docs \cup {b \o <<Lit("}")>> : b \in docs}

AllOutcomes ==
    {HealthOutcome(TRUE, FALSE, <<>>), HealthOutcome(FALSE, FALSE, <<>>)}
        \cup {HealthOutcome(FALSE, TRUE, b) : b \in HealthBodies}

\* Probes one at a time: the handler shares nothing with other requests.
HealthzAlone(h, pool) ==
    /\ \A g \in Handlers : hs[g].pc = "idle"
    /\ Healthz(h, pool)

NextHealth ==
    \/ Startup
    \/ \E h \in Handlers : HealthzAlone(h, AllOutcomes)
    \/ \E h \in Handlers : Finish(h)

SpecHealth == Init /\ [][NextHealth]_vars

\* ------------------------------------------------- metrics and shutdown
\* The values of metrics.interval, by sign.
Intervals == {-1, 0, 1}

\* The counters in the order in which lines 355-356 of main.go load them.
MetricsFields == <<"Calls", "Calls2XX", "Calls4XX", "Calls5XX">>

ClassSum(node) == node.Calls2XX + node.Calls4XX + node.Calls5XX

\* Mutant of MetricsLine: the first two values are exchanged.
MetricsLine_Swapped(n, v) == LogLine("node", n, v[2], v[1], v[3], v[4])

\* "node %s: calls %d, 2xx %d, 4xx %d, 5xx %d" (lines 353-357) for the node
\* of Go index n and the four loaded values v.
MetricsLine(n, v) == LogLine("node", n, v[1], v[2], v[3], v[4])

\* The count of logged lines after one more.
Logged(k) == IF k < MaxLines THEN k + 1 ELSE k

\* Mutant of runPrintNodeMetrics: an interval of zero is replaced by a
\* default period.
runPrintNodeMetrics_ZeroDefaults ==
    /\ phase = "serving"
    /\ rep.pc = "start"
    /\ IF printMetricsInterval < 0
       THEN phase' = "panic" /\ rep' = rep
       ELSE phase' = phase /\ rep' = [rep EXCEPT !.pc = "select"]
    /\ UNCHANGED <<nodes, nodeHealthProxy, ReverseProxyNodes, nodesIndex, hs, calls,
                   processed, printMetricsInterval, ctxDone, line, lines>>

\* runPrintNodeMetrics, lines 340-346: return when the interval is zero,
\* else create the ticker; time.NewTicker panics on a negative interval and
\* the panic of a goroutine ends the process.
runPrintNodeMetrics ==
    /\ phase = "serving"
    /\ rep.pc = "start"
    /\ IF printMetricsInterval = 0
       THEN phase' = phase /\ rep' = [rep EXCEPT !.pc = "returned"]
       ELSE IF printMetricsInterval < 0
       THEN phase' = "panic" /\ rep' = rep
       ELSE phase' = phase /\ rep' = [rep EXCEPT !.pc = "select"]
    /\ UNCHANGED <<nodes, nodeHealthProxy, ReverseProxyNodes, nodesIndex, hs, calls,
                   processed, printMetricsInterval, ctxDone, line, lines>>

\* The select takes <-ticker.C (lines 349-352): the start line is logged
\* and the loop over the registry begins.
MetricsTick ==
    /\ phase = "serving"
    /\ rep.pc = "select"
    /\ line' = LogLine("start", 0, 0, 0, 0, 0)
    /\ lines' = Logged(lines)
    /\ rep' = [NewReporter EXCEPT !.pc = "report"]
    /\ UNCHANGED <<phase, nodes, nodeHealthProxy, ReverseProxyNodes, nodesIndex, hs,
                   calls, processed, printMetricsInterval, ctxDone>>

\* Lines 352-358: one atomic.LoadUint64 of the node's next counter; after
\* the fourth, Infof logs the node's line and the loop goes on to the next
\* node, or back to the select after the last.
MetricsLoad ==
    /\ phase = "serving"
    /\ rep.pc = "report"
    /\ LET node == ReverseProxyNodes[rep.i + 1]
           k == Len(rep.loaded) + 1
           v == Append(rep.loaded, node[MetricsFields[k]])
       IN  IF k < Len(MetricsFields)
           THEN /\ rep' = [rep EXCEPT !.loaded = v,
                                      !.seen = IF k = 1 THEN ClassSum(node) ELSE @]
                /\ UNCHANGED <<line, lines>>
           ELSE /\ line' = [MetricsLine(rep.i, v) EXCEPT
                               !.during = ClassSum(node) - rep.seen]
                /\ lines' = Logged(lines)
                /\ rep' = IF rep.i + 1 < Len(ReverseProxyNodes)
                          THEN [NewReporter EXCEPT !.pc = "report", !.i = rep.i + 1]
                          ELSE [NewReporter EXCEPT !.pc = "select"]
    /\ UNCHANGED <<phase, nodes, nodeHealthProxy, ReverseProxyNodes, nodesIndex, hs,
                   calls, processed, printMetricsInterval, ctxDone>>

\* Mutant of MetricsReturn: the counters are flushed once more on the way
\* out.
MetricsReturn_Flush ==
    /\ phase = "serving"
    /\ rep.pc = "select"
    /\ ctxDone
    /\ rep' = [NewReporter EXCEPT !.pc = "returned"]
    /\ line' = LogLine("start", 0, 0, 0, 0, 0)
    /\ lines' = Logged(lines)
    /\ UNCHANGED <<phase, nodes, nodeHealthProxy, ReverseProxyNodes, nodesIndex, hs,
                   calls, processed, printMetricsInterval, ctxDone>>

\* The select takes <-ctx.Done() (lines 359-360): return; the deferred
\* ticker.Stop logs nothing.
MetricsReturn ==
    /\ phase = "serving"
    /\ rep.pc = "select"
    /\ ctxDone
    /\ rep' = [NewReporter EXCEPT !.pc = "returned"]
    /\ UNCHANGED <<phase, nodes, nodeHealthProxy, ReverseProxyNodes, nodesIndex, hs,
                   calls, processed, printMetricsInterval, ctxDone, line, lines>>

\* An interrupt arrives: the context of signal.NotifyContext (line 287) is
\* cancelled.
Interrupt ==
    /\ phase = "serving"
    /\ ~ctxDone
    /\ ctxDone' = TRUE
    /\ UNCHANGED <<phase, nodes, nodeHealthProxy, ReverseProxyNodes, nodesIndex, hs,
                   calls, processed, printMetricsInterval, rep, line, lines>>

\* main, lines 299-302: <-ctx.Done() returns and main returns; the process
\* ends with whatever its goroutines were doing.
MainReturn ==
    /\ phase = "serving"
    /\ ctxDone
    /\ phase' = "exited"
    /\ UNCHANGED <<nodes, nodeHealthProxy, ReverseProxyNodes, nodesIndex, hs, calls,
                   processed, printMetricsInterval, ctxDone, rep, line, lines>>

\* The upstream response and the probe outcome of the runs with the
\* reporter.
MetricsResponses == {Response(200, "", ResultBody, TRUE)}

MetricsOutcomes == {HealthOutcome(FALSE, TRUE, ResultBody)}

\* One node in health-probe mode or two nodes without it, and every sign
\* of the interval.
InitMetrics ==
    /\ phase = "boot"
    /\ \E c \in {<<<<TRUE>>, TRUE>>, <<<<TRUE, TRUE>>, FALSE>>} :
           nodes = c[1] /\ nodeHealthProxy = c[2]
    /\ ReverseProxyNodes = <<>>
    /\ nodesIndex = 0
    /\ hs = [h \in Handlers |-> IdleHandler]
    /\ calls = <<>>
    /\ processed = <<>>
    /\ printMetricsInterval \in Intervals
    /\ ctxDone = FALSE
    /\ rep = NewReporter
    /\ line = NoLine
    /\ lines = 0

\* Each handler's goroutine serves one request in these runs.
NextMetrics ==
    \/ Startup
    \/ \E h \in Handlers : NextNodeAdd(h)
    \/ \E h \in Handlers : NextNodeReturn(h)
    \/ \E h \in Handlers : ModifyResponseBegin(h, MetricsResponses)
    \/ \E h \in Handlers : ModifyResponseEnd(h)
    \/ \E h \in Handlers : HealthzAlone(h, MetricsOutcomes)
    \/ runPrintNodeMetrics
    \/ MetricsTick
    \/ MetricsLoad
    \/ MetricsReturn
    \/ Interrupt
    \/ MainReturn

SpecMetrics == InitMetrics /\ [][NextMetrics]_vars

\* The reporter's goroutine is scheduled, and a select with a ready case
\* that is reached again and again takes that case at some point (the
\* select of Go picks among ready cases at random).
SpecMetricsFair ==
    /\ SpecMetrics
    /\ WF_vars(runPrintNodeMetrics)
    /\ WF_vars(MetricsLoad)
    /\ SF_vars(MetricsReturn)

\* ------------------------------------------------ response inspection
\* Handler h has written the response of a request whose upstream
\* response went through ModifyResponse.
Inspected(h) == hs[h].pc = "done" /\ hs[h].path = "/" /\ hs[h].resp # NoResponse

\* The decoded body of r contains a member named error at some depth.
HasErrorField(r) ==
    LET dec == tryDecompressResponse(r.ce, r.body)
        doc == JsonqueryParse(dec.data)
    IN  ~dec.err /\ doc.ok /\ HasKey(doc.val, "error:")

\* C1 (as claimed): every inspected response whose decoded body contains a
\* member named error at any depth is delivered with status 429, whatever
\* the upstream status, and with the body bytes as received.
C1_ErrorFieldDelivers429 ==
    \A h \in Handlers :
        (Inspected(h) /\ hs[h].resp.readOk /\ HasErrorField(hs[h].resp))
            => /\ hs[h].out.status = StatusTooManyRequests
               /\ hs[h].out.body = hs[h].resp.body

\* C2: every inspected response without an error member, or whose gzip or
\* deflate decoding or JSON parsing fails, is delivered with the upstream
\* status, with exactly the bytes read from upstream, and with
\* Content-Length set to their count.
C2_NoErrorDeliveredUnchanged ==
    \A h \in Handlers :
        (Inspected(h) /\ hs[h].resp.readOk /\ ~HasErrorField(hs[h].resp))
            => /\ hs[h].out.status = hs[h].resp.status
               /\ hs[h].out.body = hs[h].resp.body
               /\ hs[h].out.contentLength = Len(hs[h].resp.body)

\* A gzip body that decodes to a document without an error member was
\* delivered; its decoded bytes differ from the bytes delivered.
C2_Witness ==
    \E h \in Handlers :
        /\ Inspected(h) /\ hs[h].resp.readOk /\ ~HasErrorField(hs[h].resp)
        /\ hs[h].resp.ce = "gzip" /\ GzipNewReaderOk(hs[h].resp.body)
        /\ ~Inspect(hs[h].resp).decodeErr /\ Inspect(hs[h].resp).parseOk
        /\ Len(hs[h].resp.body) > 3
        /\ hs[h].out.body = hs[h].resp.body
        /\ hs[h].out.status = 500

\* The body of a gzip-labelled response cannot be decoded: the member
\* header is invalid, or reading the stream fails.
GzipUndecodable(b) == ~GzipNewReaderOk(b) \/ GzipReadAll(b).err

\* The response r with the Content-Encoding header taken away.
Unencoded(r) == [r EXCEPT !.ce = ""]

\* The counters of registry rpn as a tuple.
Counters(rpn) ==
    [i \in 1..Len(rpn) |-> <<rpn[i].Calls, rpn[i].Calls2XX, rpn[i].Calls4XX, rpn[i].Calls5XX>>]

\* Handler h inspected its response exactly as it would have inspected
\* response q: the same log line, the same counters after the (single)
\* response, the same delivery, and no error returned.
InspectedLike(h, q) ==
    /\ hs[h].warn = WarnLine(q)
    /\ Counters(ReverseProxyNodes) =
           Counters(CountClass(<<[Node(TRUE) EXCEPT !.Calls = 1]>>, 0,
                               Inspect(q).statusCode))
    /\ hs[h].out = Deliver(q)
    /\ ~Inspect(q).retErr

NumNodes == Len(ReverseProxyNodes)

Returned(i) == calls[i].idx # -1

\* C3: K sequential nextNode calls (none overlapping any other call)
\* starting from cursor value c return the indices (c + i) mod N for
\* i = 1..K in that order; on a fresh registry the first returns 1 mod N.
C3_SequentialRoundRobin ==
    /\ \A a \in 1..Len(calls) : \A b \in a..Len(calls) :
           (\A j \in a..b : calls[j].alone /\ Returned(j))
               => \A j \in a..b :
                      calls[j].idx = (calls[a].c0 + (j - a + 1)) % NumNodes
    /\ (Len(calls) >= 1 /\ Returned(1))
           => calls[1].c0 = 0 /\ calls[1].idx = 1 % NumNodes

\* Two sequential calls on a registry of two nodes returned index 1, then
\* index 0.
C3_Witness ==
    /\ NumNodes = 2
    /\ Len(calls) = 2
    /\ \A j \in 1..2 : calls[j].alone /\ Returned(j)
    /\ calls[1].idx = 1 /\ calls[2].idx = 0

\* The number of i in lo..hi with i mod n = m.
CountMod(lo, hi, n, m) == Cardinality({i \in lo..hi : i % n = m})

\* C4: under any interleaving of K nextNode calls from cursor c (here 0,
\* the cursor of a new process), the calls obtain distinct cursor values,
\* the cursor is c + K, a call that has done its Add can always return
\* and returns an index of the registry, and once all have returned the
\* multiset of returned indices is { i mod N : i = c+1..c+K }.
C4_ConcurrentSelection ==
    /\ \A i, j \in 1..Len(calls) : i # j => calls[i].val # calls[j].val
    /\ nodesIndex = Len(calls)
    /\ \A h \in Handlers : hs[h].pc = "picked" => ENABLED NextNodeReturn(h)
    /\ \A i \in 1..Len(calls) : Returned(i) => calls[i].idx \in 0..(NumNodes - 1)
    /\ (\A i \in 1..Len(calls) : Returned(i))
           => \A m \in 0..(NumNodes - 1) :
                  Cardinality({i \in 1..Len(calls) : calls[i].idx = m})
                      = CountMod(1, Len(calls), NumNodes, m)

\* Two overlapping calls on a registry of two nodes have both returned.
C4_Witness ==
    /\ NumNodes = 2
    /\ Len(calls) = 2
    /\ \A j \in 1..2 : ~calls[j].alone /\ Returned(j)
    /\ nodesIndex = 2

\* ------------------------------------------------------------ counters
InFlight(n) == Cardinality({h \in Handlers : hs[h].pc = "inspect" /\ hs[h].node = n})

\* The class counters of the registry after one response with final
\* status sc for the node of Go index n, written from the ranges.
ClassesAfter(rpn, n, sc) ==
    [i \in 1..Len(rpn) |->
        <<rpn[i].Calls2XX + (IF i = n + 1 /\ sc \in 200..299 THEN 1 ELSE 0),
          rpn[i].Calls4XX + (IF i = n + 1 /\ sc \in 400..499 THEN 1 ELSE 0),
          rpn[i].Calls5XX + (IF i = n + 1 /\ sc \in 500..599 THEN 1 ELSE 0)>>]

Classes(rpn) ==
    [i \in 1..Len(rpn) |-> <<rpn[i].Calls2XX, rpn[i].Calls4XX, rpn[i].Calls5XX>>]

Totals(rpn) == [i \in 1..Len(rpn) |-> rpn[i].Calls]

\* One response through the hook of handler h: the first step adds 1 to
\* Calls of its node and nothing else; the last step adds 1 to exactly
\* the class counter of the final statusCode (to none outside 200-299,
\* 400-599) and leaves Calls alone.
HookCountsOnce(h) ==
    /\ (hs[h].pc = "proxying" /\ hs'[h].pc = "inspect")
           => /\ Totals(ReverseProxyNodes') =
                     [Totals(ReverseProxyNodes) EXCEPT ![hs[h].node + 1] = @ + 1]
              /\ Classes(ReverseProxyNodes') = Classes(ReverseProxyNodes)
    /\ (hs[h].pc = "inspect" /\ hs'[h].pc = "done")
           => /\ Totals(ReverseProxyNodes') = Totals(ReverseProxyNodes)
              /\ Classes(ReverseProxyNodes') =
                     ClassesAfter(ReverseProxyNodes, hs[h].node,
                                  IF hs[h].resp.readOk /\ HasErrorField(hs[h].resp)
                                  THEN StatusTooManyRequests ELSE hs[h].resp.status)

\* Calls of every node is the number of responses fully processed for it
\* plus the number of hooks now running for it.
NoLostUpdates ==
    phase = "serving" =>
        \A n \in 0..(NumNodes - 1) :
            ReverseProxyNodes[n + 1].Calls = processed[n + 1] + InFlight(n)

\* C5: each response passed to a node's ModifyResponse adds exactly 1 to
\* its Calls and 1 to exactly one of Calls2XX/Calls4XX/Calls5XX when the
\* final status is in 200-299/400-499/500-599, to none otherwise; under
\* any interleaving, once M responses for a node are fully processed its
\* Calls is M.
C5_CountedExactlyOnce ==
    /\ [](NoLostUpdates)
    /\ [][\A h \in Handlers : HookCountsOnce(h)]_vars

\* Two responses for the same node are fully processed, one of them
\* outside the three classes, and no hook is running.
C5_Witness ==
    \E n \in 0..(NumNodes - 1) :
        /\ phase = "serving"
        /\ processed[n + 1] = 2 /\ InFlight(n) = 0
        /\ ReverseProxyNodes[n + 1].Calls = 2
        /\ ClassSum(ReverseProxyNodes[n + 1]) = 1

\* C6: in every reachable state, also in the middle of concurrently
\* running hooks, every node has Calls >= Calls2XX + Calls4XX + Calls5XX.
C6_TotalBoundsClasses ==
    \A i \in 1..NumNodes :
        ReverseProxyNodes[i].Calls >= ClassSum(ReverseProxyNodes[i])

\* Two hooks run for the same node, both between their two increments:
\* Calls is 2 and no class counter has moved.
C6_Witness ==
    \E g, h \in Handlers :
        /\ g # h
        /\ hs[g].pc = "inspect" /\ hs[h].pc = "inspect" /\ hs[g].node = hs[h].node
        /\ ReverseProxyNodes[hs[h].node + 1].Calls = 2
        /\ ClassSum(ReverseProxyNodes[hs[h].node + 1]) = 0

\* --------------------------------------------------------------- startup
\* Some request is being handled or has been answered.
Serving == \E h \in Handlers : hs[h].pc # "idle"

RegistryValid ==
    /\ NumNodes >= 1
    /\ NumNodes = Len(nodes)
    /\ \A i \in 1..NumNodes : ReverseProxyNodes[i].built /\ nodes[i]
    /\ nodeHealthProxy => NumNodes = 1

\* C10: requests are served only after startup validation passed: whenever
\* a request is handled the registry holds N >= 1 nodes, all built, health
\* probe mode implies N = 1, every index nextNode computed and the index 0
\* of the probe are within the registry; the registry's size never changes.
C10_ServingImpliesValidRegistry ==
    /\ [](Serving => phase = "serving")
    /\ [](phase = "serving" => RegistryValid)
    /\ [](phase = "serving" =>
            /\ 0 < NumNodes
            /\ \A i \in 1..Len(calls) : Returned(i) => calls[i].idx \in 0..(NumNodes - 1)
            /\ \A h \in Handlers : hs[h].node \in 0..(NumNodes - 1))
    /\ [][phase = "serving" => Len(ReverseProxyNodes') = Len(ReverseProxyNodes)]_vars

\* In health-probe mode a probe was answered and a selection returned.
C10_Witness ==
    /\ phase = "serving" /\ nodeHealthProxy
    /\ \E h \in Handlers : hs[h].pc = "done" /\ hs[h].path = "/healthz"
    /\ \E i \in 1..Len(calls) : Returned(i)

\* --------------------------------------------------------------- healthz
Probed(h) == hs[h].pc = "done" /\ hs[h].path = "/healthz"

\* C7: with health-probe mode enabled every /healthz request ends in one
\* status that the single upstream outcome determines, after exactly one
\* upstream call: 503 for a transport failure or timeout; 500 for a body
\* read or JSON decode failure; 500 for result true; 200 for result false;
\* 502 with the upstream body echoed for any other or absent result.
C7_ProbeStatusFromOutcome ==
    \A h \in Handlers :
        (Probed(h) /\ nodeHealthProxy) =>
            LET o == hs[h].probe
                out == hs[h].out
                d == DecodeMap(o.body)
                result == MapGet(d.m, "result:")
            IN  /\ out.upstreamCalls = 1
                /\ o.doErr => out.status = 503 /\ out.body = <<>>
                /\ (~o.doErr /\ ~o.readOk) => out.status = 500 /\ out.body = <<>>
                /\ (~o.doErr /\ o.readOk /\ ~d.ok) => out.status = 500 /\ out.body = <<>>
                /\ (~o.doErr /\ o.readOk /\ d.ok) =>
                       /\ result = Scalar("true") => out.status = 500 /\ out.body = <<>>
                       /\ result = Scalar("false") => out.status = 200 /\ out.body = <<>>
                       /\ result \notin {Scalar("true"), Scalar("false")}
                              => out.status = 502 /\ out.body = o.body

\* A probe whose result is an object was answered 502 with the body echoed.
C7_Witness ==
    \E h \in Handlers :
        /\ Probed(h) /\ nodeHealthProxy
        /\ hs[h].probe.readOk
        /\ MapGet(DecodeMap(hs[h].probe.body).m, "result:").t = "obj"
        /\ hs[h].out.status = 502
        /\ hs[h].out.body = hs[h].probe.body

\* C8: with health-probe mode disabled every /healthz request returns 200
\* whatever the upstreams would answer and calls no upstream; with the mode
\* enabled the status is one of 200, 500, 502, 503.
C8_HealthzStatusSet ==
    \A h \in Handlers :
        Probed(h) =>
            /\ ~nodeHealthProxy => hs[h].out.status = 200 /\ hs[h].out.upstreamCalls = 0
            /\ nodeHealthProxy => hs[h].out.status \in {200, 500, 502, 503}

\* With two nodes and the mode disabled a /healthz request was answered 200.
C8_Witness ==
    \E h \in Handlers :
        /\ Probed(h) /\ ~nodeHealthProxy /\ NumNodes = 2
        /\ hs[h].out.status = 200 /\ hs[h].out.upstreamCalls = 0

\* ------------------------------------------------------ first selection
\* C12 (as claimed): for every N >= 1, N = 1 included, the first nextNode
\* call of a fresh registry never returns index 0.
C12_FirstCallNeverZero ==
    (Len(calls) >= 1 /\ Returned(1)) => calls[1].idx # 0

\* C12 (amended): the first nextNode call of a fresh registry returns
\* index 1, never index 0, when N >= 2, and index 0 (the only node) when
\* N = 1.
C12_FirstCallIndex ==
    (Len(calls) >= 1 /\ Returned(1)) =>
        /\ calls[1].c0 = 0
        /\ NumNodes >= 2 => calls[1].idx = 1
        /\ NumNodes = 1 => calls[1].idx = 0

\* The first call on a registry of one node has returned index 0.
C12_Witness ==
    /\ NumNodes = 1
    /\ Len(calls) >= 1 /\ Returned(1)
    /\ calls[1].c0 = 0 /\ calls[1].idx = 0

\* ------------------------------------------- classification and errors
\* C13: the class counter follows the final status: a response in which
\* the error signature is detected adds 1 to Calls4XX of its node (final
\* status 429) and leaves the counter of the class of the upstream status
\* as it was.
C13_ClassOfFinalStatus ==
    \A h \in Handlers :
        (Inspected(h) /\ hs[h].resp.readOk /\ HasErrorField(hs[h].resp))
            => /\ hs[h].warn = "detect error"
               /\ Counters(ReverseProxyNodes) = <<<<1, 0, 1, 0>>>>

\* A response of upstream status 500 with an error member was processed:
\* Calls4XX is 1 and Calls5XX is 0.
C13_Witness ==
    \E h \in Handlers :
        /\ Inspected(h) /\ hs[h].resp.readOk /\ HasErrorField(hs[h].resp)
        /\ hs[h].resp.status = 500
        /\ ReverseProxyNodes[1].Calls4XX = 1
        /\ ReverseProxyNodes[1].Calls5XX = 0

\* The decoding of the body of r by flate fails.
DeflateFails(r) == r.ce = "deflate" /\ FlateReadAll(r.body).err

\* The header of the gzip body of r is valid and reading its stream fails.
GzipStreamFails(r) ==
    r.ce = "gzip" /\ GzipNewReaderOk(r.body) /\ GzipReadAll(r.body).err

\* The hook of handler h returned an error: the proxy answered 502 without
\* a body in place of the upstream response.
HookFailed(h) ==
    Inspect(hs[h].resp).retErr /\ hs[h].out = Delivery(StatusBadGateway, <<>>, -1, 1)

StepOf(x, y) == y = x \/ y = x + 1

\* C17: while the process serves, in every step the cursor and each of
\* the four counters of every node either stays the same or grows by
\* exactly 1; none is ever decreased or reset.
C17_CountersStepByOne ==
    [][phase = "serving" =>
          /\ StepOf(nodesIndex, nodesIndex')
          /\ Len(ReverseProxyNodes') = Len(ReverseProxyNodes)
          /\ \A i \in 1..NumNodes :
                 /\ StepOf(ReverseProxyNodes[i].Calls, ReverseProxyNodes'[i].Calls)
                 /\ StepOf(ReverseProxyNodes[i].Calls2XX, ReverseProxyNodes'[i].Calls2XX)
                 /\ StepOf(ReverseProxyNodes[i].Calls4XX, ReverseProxyNodes'[i].Calls4XX)
                 /\ StepOf(ReverseProxyNodes[i].Calls5XX, ReverseProxyNodes'[i].Calls5XX)]_vars

\* The cursor has moved twice and a node has counted two calls, one of
\* them in a class.
C17_Witness ==
    /\ phase = "serving" /\ nodesIndex = 2
    /\ \E i \in 1..NumNodes :
           ReverseProxyNodes[i].Calls = 2 /\ ClassSum(ReverseProxyNodes[i]) = 1

\* ---------------------------------------------------------------- balance
\* The number of selections of the node of Go index m, each counted at
\* its atomic increment.
Selections(m) ==
    Cardinality({i \in 1..Len(calls) : NodeIndex(calls[i].val, NumNodes) = m})

\* C19: in every reachable state the numbers of selections of any two
\* nodes, counted at the atomic increment, differ by at most 1.
C19_RoundRobinBalance ==
    phase = "serving" =>
        \A m, n \in 0..(NumNodes - 1) :
            Selections(m) - Selections(n) \in {-1, 0, 1}

\* Two selections on a registry of three nodes: nodes 1 and 2 have one
\* each and node 0 has none yet.
C19_Witness ==
    /\ phase = "serving" /\ NumNodes = 3 /\ nodesIndex = 2
    /\ Selections(0) = 0 /\ Selections(1) = 1 /\ Selections(2) = 1

\* --------------------------------------------------------------- metrics
\* The reporter has logged a line for a node.
NodeLine == line.kind = "node"

LineClassSum == line.c2xx + line.c4xx + line.c5xx

\* C11: when the metrics interval is zero the reporter never logs a line,
\* however many requests are processed and however long the process runs.
C11_ZeroIntervalNoLine ==
    printMetricsInterval = 0 =>
        /\ line = NoLine /\ lines = 0
        /\ rep.pc \in {"start", "returned"}

\* With a zero interval the reporter has returned, and two responses have
\* since been counted.
C11_Witness ==
    /\ printMetricsInterval = 0 /\ rep.pc = "returned"
    /\ phase = "serving"
    /\ \E i \in 1..NumNodes : processed[i] >= 1
    /\ nodesIndex = 2

\* C15 (as claimed): every line the reporter logs for a node reports
\* calls >= 2xx + 4xx + 5xx, also when hooks of that node run between the
\* reporter's four loads.
C15_LineTotalBoundsClasses ==
    NodeLine => line.calls >= LineClassSum

\* C15 (amended): every value of a node's line is a value its counter held
\* at its load, none above the counter's present value; the reported
\* 2xx + 4xx + 5xx exceeds the reported calls by at most the number of
\* class increments of that node between the load of Calls and the load of
\* Calls5XX, so calls >= 2xx + 4xx + 5xx holds when there were none, and
\* the reported classes never exceed the node's present Calls.
C15_LineBoundedByLaterCounts ==
    NodeLine =>
        LET node == ReverseProxyNodes[line.node + 1]
        IN  /\ line.calls <= node.Calls
            /\ line.c2xx <= node.Calls2XX
            /\ line.c4xx <= node.Calls4XX
            /\ line.c5xx <= node.Calls5XX
            /\ LineClassSum <= node.Calls
            /\ LineClassSum <= line.calls + line.during
            /\ line.during = 0 => line.calls >= LineClassSum

\* A line reports calls 0 and 2xx 1: a response was counted between the
\* load of Calls and the load of Calls2XX.
C15_Witness ==
    /\ NodeLine
    /\ line.calls = 0 /\ line.c2xx = 1 /\ line.during = 1
    /\ ReverseProxyNodes[line.node + 1].Calls = 1

\* The reporter is out of its loop for good: it returned, or the process
\* has ended (main returned after the cancellation, or time.NewTicker
\* panicked on a negative interval).
ReporterOut == rep.pc = "returned" \/ phase \in {"exited", "panic"}

\* C16: with a non-zero interval, once the cancellation has fired the
\* reporter eventually is out of its loop (given that a select whose
\* cancellation case is ready again and again takes it); the step that
\* leaves the loop logs no line, and none is logged afterwards.
C16_CancelledReporterExits ==
    /\ (ctxDone /\ printMetricsInterval # 0) ~> ReporterOut
    /\ [][(printMetricsInterval # 0 /\ rep.pc # "returned" /\ rep'.pc = "returned")
              => (rep.pc = "select" /\ ctxDone /\ line' = line /\ lines' = lines)]_vars
    /\ [][ReporterOut => (line' = line /\ lines' = lines /\ ReporterOut')]_vars

\* After a tick the cancellation fired and the reporter returned from its
\* select; the process still runs and the last line is the tick's.
C16_Witness ==
    /\ printMetricsInterval # 0 /\ ctxDone
    /\ rep.pc = "returned" /\ phase = "serving"
    /\ lines >= 1 /\ NodeLine

\* ------------------------------------------------------------------ frame
\* Handler h takes a step from pc a to pc b.
HandlerStep(h, a, b) == hs[h].pc = a /\ hs'[h].pc = b

\* C18: a selection changes only the cursor; the inspection of a response
\* of node A changes only counters of A and leaves the cursor and the
\* counters of every other node alone; a /healthz request, in either
\* mode, and every step of a metrics tick change neither the cursor nor
\* any counter.
C18_Frame ==
    [][/\ \A h \in Handlers :
             /\ (HandlerStep(h, "idle", "picked") \/ HandlerStep(h, "picked", "proxying"))
                    => ReverseProxyNodes' = ReverseProxyNodes
             /\ HandlerStep(h, "picked", "proxying") => nodesIndex' = nodesIndex
             /\ (HandlerStep(h, "proxying", "inspect") \/ HandlerStep(h, "inspect", "done"))
                    => /\ nodesIndex' = nodesIndex
                       /\ Len(ReverseProxyNodes') = Len(ReverseProxyNodes)
                       /\ \A i \in 1..NumNodes :
                              i # hs[h].node + 1
                                  => ReverseProxyNodes'[i] = ReverseProxyNodes[i]
             /\ (HandlerStep(h, "idle", "done") /\ hs'[h].path = "/healthz")
                    => /\ nodesIndex' = nodesIndex
                       /\ ReverseProxyNodes' = ReverseProxyNodes
       /\ (rep' # rep \/ line' # line \/ lines' # lines)
              => /\ nodesIndex' = nodesIndex
                 /\ ReverseProxyNodes' = ReverseProxyNodes]_vars

\* With two nodes: a probe was answered, a response of node 1 was counted
\* while node 0 counted nothing, and the reporter logged node 1's line.
C18_Witness ==
    /\ NumNodes = 2 /\ nodesIndex = 1
    /\ \E h \in Handlers : hs[h].pc = "done" /\ hs[h].path = "/healthz"
    /\ Counters(ReverseProxyNodes) = <<<<0, 0, 0, 0>>, <<1, 1, 0, 0>>>>
    /\ NodeLine /\ line.node = 1 /\ line.calls = 1

=============================================================================
